---- MODULE Spec2Model ----
(***************************************************************************)
(* Model of yass/models/plugin.py: PluginBase.clean, PluginBase.url and    *)
(* the polling loop PluginBase.run.                                        *)
(*                                                                         *)
(* A Python string is a sequence of one-character strings, so that         *)
(* formatting, joining and regular-expression matching are computed        *)
(* character by character.  Python's None is the string "None".            *)
(***************************************************************************)
EXTENDS Integers, Sequences, FiniteSets, TLC

VARIABLES
    domain,                 \* self.domain
    exclude_subdomains,     \* self.exclude_subdomains (None or a list)
    meta,                   \* self._meta, the plugin's options
    pc,                     \* position of run: idle, url, fetch, clean, sleep, done
    state,                  \* Idle, Polling, StoppedNoNewResults, StoppedError, Raised
    collected_subdomains,   \* run's local list
    index,                  \* run's local counter of iterations begun
    last_url,               \* run's local url
    elements,               \* run's local elements (what the fetch selected)
    ret,                    \* what run returned (None before it returns)
    raised,                 \* the exception that left run (None if none)
    nFetch,                 \* number of PyQuery(url=...) calls issued
    nSleep,                 \* number of time.sleep calls made
    allEmpty,               \* every fetch so far succeeded with zero elements
    call,                   \* arguments of a direct call of clean or url
    result,                 \* what that call returned
    slept,                  \* seconds spent in time.sleep
    runs,                   \* the plugins running side by side, one record each
    classes                 \* the plugin classes defined so far, in order

vars == <<domain, exclude_subdomains, meta, pc, state, collected_subdomains,
          index, last_url, elements, ret, raised, nFetch, nSleep, allEmpty,
          call, result, slept, runs, classes>>

runVars == <<domain, exclude_subdomains, meta, pc, state, collected_subdomains,
             index, last_url, elements, ret, raised, nFetch, nSleep, allEmpty,
             slept>>

None == "None"

----------------------------------------------------------------------------
(* Bounds *)

MaxLen == 6        \* longest raw text given to a direct call of clean
MaxExcl == 2       \* longest exclusion list given to a direct call of url
MaxPage == 2       \* most elements a fetched page selects
MaxIter == 3       \* most iterations of run's loop

----------------------------------------------------------------------------
(* Strings *)

Max(S) == CHOOSE x \in S : \A y \in S : y <= x

EndsWith(s, suffix) ==
    /\ Len(suffix) <= Len(s)
    /\ SubSeq(s, Len(s) - Len(suffix) + 1, Len(s)) = suffix

Contains(list, x) == \E i \in 1..Len(list) : list[i] = x

\* The characters raw texts are made of.
Chars == {"a", ".", "/", "?", ":", "\n"}

Texts(n) == UNION {[1..k -> Chars] : k \in 0..n}

----------------------------------------------------------------------------
(* helpers.without_duplicates: the items in first-seen order, each once *)

RECURSIVE WithoutDuplicatesFrom(_, _)
WithoutDuplicatesFrom(iterable, seen) ==
    IF iterable = <<>> THEN <<>>
    ELSE IF Head(iterable) \in seen
         THEN WithoutDuplicatesFrom(Tail(iterable), seen)
         ELSE <<Head(iterable)>>
              \o WithoutDuplicatesFrom(Tail(iterable), seen \cup {Head(iterable)})

without_duplicates(iterable) == WithoutDuplicatesFrom(iterable, {})

----------------------------------------------------------------------------
(* PluginBase.clean                                                        *)
(*                                                                         *)
(* The pattern has four parts: an optional group "one or more characters,  *)
(* then ://"; the group subdomain, "any characters, then the domain"; one  *)
(* character that is / or ?; and any characters.  The domain is inserted   *)
(* as it is, so its characters are read as pattern syntax: a letter stands *)
(* for itself, "." for any character but a newline, and an opening         *)
(* parenthesis leaves the pattern unbalanced.  re.match anchors the        *)
(* pattern at the start of the text only.                                  *)

\* "." of a pattern: any character but a newline.
DotMatches(c) == c /= "\n"

AllDot(u, lo, hi) == \A k \in lo..hi : DotMatches(u[k])

\* re.compile raises for the pattern built from this domain.
CompileRaises(d) == \E i \in 1..Len(d) : d[i] = "("

\* The domain, read as a pattern, matches u[k+1 .. k+Len(d)].
DomainAt(d, u, k) ==
    /\ k + Len(d) <= Len(u)
    /\ \A i \in 1..Len(d) :
          IF d[i] = "." THEN DotMatches(u[k + i]) ELSE u[k + i] = d[i]

\* The lengths j the "any characters" of the group subdomain can take when
\* the pattern's last three parts are matched from position p+1 on.
TailMatches(d, u, p) ==
    {j \in 0..(Len(u) - p) :
        /\ AllDot(u, p + 1, p + j)
        /\ DomainAt(d, u, p + j)
        /\ p + j + Len(d) + 1 <= Len(u)
        /\ u[p + j + Len(d) + 1] \in {"/", "?"}}

\* The lengths i the "one or more characters" of the optional group can
\* take such that the rest of the pattern matches after the group.
SchemeMatches(d, u) ==
    {i \in 1..Len(u) :
        /\ AllDot(u, 1, i)
        /\ i + 3 <= Len(u)
        /\ SubSeq(u, i + 1, i + 3) = <<":", "/", "/">>
        /\ TailMatches(d, u, i + 3) /= {}}

\* regexp.match(url): greedy, so the optional group is taken when it can
\* be, and each repetition is as long as it can be, the earlier one first.
RegexpMatch(d, u) ==
    LET I == SchemeMatches(d, u)
        p == IF I /= {} THEN Max(I) + 3 ELSE 0
        T == TailMatches(d, u, p)
    IN  IF T = {}
        THEN [matched |-> FALSE, subdomain |-> <<>>]
        ELSE [matched |-> TRUE,
              subdomain |-> SubSeq(u, p + 1, p + Max(T) + Len(d))]

RECURSIVE CleanLoop(_, _, _)
CleanLoop(d, urls, subdomains) ==
    IF urls = <<>> THEN subdomains
    ELSE LET match == RegexpMatch(d, Head(urls))
         IN  CleanLoop(d, Tail(urls),
                       IF match.matched /\ match.subdomain /= <<>>
                       THEN Append(subdomains, match.subdomain)
                       ELSE subdomains)

\* clean(urls) of a plugin whose domain is d: the list it returns, or the
\* exception re.compile raises.
clean(d, urls) ==
    IF CompileRaises(d)
    THEN [raised |-> "re.error", value |-> <<>>]
    ELSE [raised |-> None, value |-> CleanLoop(d, urls, <<>>)]

\* PluginBase.extract: the text content of each element.
extract(elems) == [i \in 1..Len(elems) |-> elems[i].text_content]

----------------------------------------------------------------------------
(* PluginBase.url *)

\* An optional list: None, or a list of strings.
NoneList == [is_none |-> TRUE, items |-> <<>>]
ListOf(items) == [is_none |-> FALSE, items |-> items]

\* (x or []) for an optional list x.
OrEmpty(x) == IF x.is_none \/ x.items = <<>> THEN <<>> ELSE x.items

\* sep.join(parts)
RECURSIVE Join(_, _)
Join(sep, parts) ==
    IF parts = <<>> THEN <<>>
    ELSE IF Len(parts) = 1 THEN parts[1]
    ELSE parts[1] \o sep \o Join(sep, Tail(parts))

\* The options of the plugins of the model (self._meta).
Metas ==
    {[search_url |-> <<"s">>, query_param |-> <<"q">>,
      include_param |-> <<"i", ":">>, exclude_param |-> <<"-">>,
      request_delay |-> 1],
     [search_url |-> <<"s">>, query_param |-> <<"q">>,
      include_param |-> <<>>, exclude_param |-> <<"-", "i", ":">>,
      request_delay |-> 2]}

\* url with the plugin's own exclusions put before the given ones.
UrlOwnFirst(m, d, self_exclude, exclude) ==
    LET base == m.search_url \o <<"?">> \o m.query_param \o <<"=">>
                \o m.include_param \o d
        excluded_subdomains ==
            without_duplicates(OrEmpty(self_exclude) \o OrEmpty(exclude))
    IN  IF excluded_subdomains /= <<>>
        THEN base \o <<"+">>
             \o Join(<<"+">>, [i \in 1..Len(excluded_subdomains) |->
                                 m.exclude_param \o excluded_subdomains[i]])
        ELSE base

\* url without the plugin's own exclusions.
UrlWithoutOwn(m, d, self_exclude, exclude) ==
    LET base == m.search_url \o <<"?">> \o m.query_param \o <<"=">>
                \o m.include_param \o d
        excluded_subdomains == without_duplicates(OrEmpty(exclude))
    IN  IF excluded_subdomains /= <<>>
        THEN base \o <<"+">>
             \o Join(<<"+">>, [i \in 1..Len(excluded_subdomains) |->
                                 m.exclude_param \o excluded_subdomains[i]])
        ELSE base

\* url(exclude_subdomains) of a plugin with options m, domain d and own
\* exclusions self_exclude.
url(m, d, self_exclude, exclude) ==
    LET base == m.search_url \o <<"?">> \o m.query_param \o <<"=">>
                \o m.include_param \o d
        excluded_subdomains ==
            without_duplicates(OrEmpty(exclude) \o OrEmpty(self_exclude))
    IN  IF excluded_subdomains /= <<>>
        THEN base \o <<"+">>
             \o Join(<<"+">>, [i \in 1..Len(excluded_subdomains) |->
                                 m.exclude_param \o excluded_subdomains[i]])
        ELSE base

----------------------------------------------------------------------------
(* PluginBase.run *)

\* The domains a plugin is created with: the empty string, a name, a name
\* with a dot in it, and a string with an opening parenthesis.
Domains == {<<>>, <<"a">>, <<".", "a">>, <<"(">>}

\* The exclude_subdomains a plugin is created with.
Presets ==
    {NoneList, ListOf(<< <<"a", "a">> >>),
     ListOf(<< <<"a">>, <<"a", "a">>, <<"a">> >>)}

\* The texts of the elements a fetched page can select.
RunTexts ==
    {<<"a", "/">>, <<".", "a", "/">>, <<"a", "a", "/">>, <<":">>}

Pages ==
    UNION {[1..k -> {[text_content |-> t] : t \in RunTexts}] : k \in 0..MaxPage}

\* The merge that puts the entries of the last page first.
MergeNewFirst(collected, subdomains) == without_duplicates(subdomains \o collected)

\* The merge that keeps the entries of the last page only.
MergeForgetsEarlier(collected, subdomains) == without_duplicates(subdomains)

\* The merge without the removal of duplicates.
MergeKeepsDuplicates(collected, subdomains) == collected \o subdomains

\* collected_subdomains = without_duplicates(collected_subdomains + subdomains)
Merge(collected, subdomains) == without_duplicates(collected \o subdomains)

\* list.remove(x): the list without the first item equal to x.
RECURSIVE Remove(_, _)
Remove(list, x) ==
    IF list = <<>> THEN <<>>
    ELSE IF Head(list) = x THEN Tail(list)
    ELSE <<Head(list)>> \o Remove(Tail(list), x)

\* The domain left in the list.
RemoveDomainSkipped(collected, d) == collected

\* if self.domain in collected_subdomains: collected_subdomains.remove(...)
RemoveDomain(collected, d) ==
    IF Contains(collected, d) THEN Remove(collected, d) ELSE collected

\* No direct call of clean or url is made during a run.
NoCall == [fn |-> "none", returned |-> FALSE]
NoResult == [raised |-> None, value |-> <<>>]

Init ==
    /\ domain \in Domains
    /\ exclude_subdomains \in Presets
    /\ meta \in Metas
    /\ pc = "idle"
    /\ state = "Idle"
    /\ collected_subdomains = <<>>
    /\ index = 0
    /\ last_url = <<>>
    /\ elements = <<>>
    /\ ret = <<>>
    /\ raised = None
    /\ nFetch = 0
    /\ nSleep = 0
    /\ allEmpty = TRUE
    /\ call = NoCall
    /\ result = NoResult
    /\ slept = 0
    /\ runs = <<>>
    /\ classes = <<>>

\* run() is called: the locals are set and the loop is entered.
Start ==
    /\ pc = "idle"
    /\ pc' = "url"
    /\ state' = "Polling"
    /\ collected_subdomains' = <<>>
    /\ index' = 0
    /\ UNCHANGED <<domain, exclude_subdomains, meta, last_url, elements, ret,
                   raised, nFetch, nSleep, allEmpty, call, result, slept, runs, classes>>

\* The top of the loop: the counter, the URL of this iteration, elements = [].
BuildUrl ==
    /\ pc = "url"
    /\ index < MaxIter
    /\ index' = index + 1
    /\ last_url' = url(meta, domain, exclude_subdomains,
                       ListOf(collected_subdomains))
    /\ elements' = <<>>
    /\ pc' = "fetch"
    /\ UNCHANGED <<domain, exclude_subdomains, meta, state,
                   collected_subdomains, ret, raised, nFetch, nSleep,
                   allEmpty, call, result, slept, runs, classes>>

\* PyQuery(url=url) and the selection succeed.
FetchOk ==
    /\ pc = "fetch"
    /\ \E page \in Pages :
          /\ elements' = page
          /\ allEmpty' = (allEmpty /\ page = <<>>)
    /\ nFetch' = nFetch + 1
    /\ pc' = "clean"
    /\ UNCHANGED <<domain, exclude_subdomains, meta, state,
                   collected_subdomains, index, last_url, ret, raised, nSleep,
                   call, result, slept, runs, classes>>

\* A failed fetch after which run returns an empty list.
FetchFailLosesResults ==
    /\ pc = "fetch"
    /\ nFetch' = nFetch + 1
    /\ allEmpty' = FALSE
    /\ state' = "StoppedError"
    /\ ret' = <<>>
    /\ pc' = "done"
    /\ UNCHANGED <<domain, exclude_subdomains, meta, collected_subdomains,
                   index, last_url, elements, raised, nSleep, call, result, slept, runs, classes>>

\* A failed fetch after which the loop goes on with another iteration.
FetchFailRetries ==
    /\ pc = "fetch"
    /\ nFetch' = nFetch + 1
    /\ allEmpty' = FALSE
    /\ state' = "StoppedError"
    /\ ret' = collected_subdomains
    /\ pc' = "url"
    /\ UNCHANGED <<domain, exclude_subdomains, meta, collected_subdomains,
                   index, last_url, elements, raised, nSleep, call, result,
                   slept, runs, classes>>

\* PyQuery(url=url) or the selection raises: the loop is left and run
\* returns collected_subdomains.
FetchFail ==
    /\ pc = "fetch"
    /\ nFetch' = nFetch + 1
    /\ allEmpty' = FALSE
    /\ state' = "StoppedError"
    /\ ret' = collected_subdomains
    /\ pc' = "done"
    /\ UNCHANGED <<domain, exclude_subdomains, meta, collected_subdomains,
                   index, last_url, elements, raised, nSleep, call, result, slept, runs, classes>>

\* subdomains = self.clean(self.extract(elements)) raises: nothing in run
\* catches it.
CleanRaises ==
    /\ pc = "clean"
    /\ clean(domain, extract(elements)).raised /= None
    /\ raised' = clean(domain, extract(elements)).raised
    /\ state' = "Raised"
    /\ pc' = "done"
    /\ UNCHANGED <<domain, exclude_subdomains, meta, collected_subdomains,
                   index, last_url, elements, ret, nFetch, nSleep, allEmpty,
                   call, result, slept, runs, classes>>

\* Subdomains were found: they are merged, the domain itself is removed,
\* and the loop goes on after the delay.
Collect ==
    /\ pc = "clean"
    /\ LET cleaned == clean(domain, extract(elements))
       IN  /\ cleaned.raised = None
           /\ cleaned.value /= <<>>
           /\ collected_subdomains' =
                 RemoveDomain(Merge(collected_subdomains, cleaned.value), domain)
    /\ pc' = "sleep"
    /\ UNCHANGED <<domain, exclude_subdomains, meta, state, index, last_url,
                   elements, ret, raised, nFetch, nSleep, allEmpty, call,
                   result, slept, runs, classes>>

\* No subdomain was found: the loop is left and run returns
\* collected_subdomains.
NoNewResults ==
    /\ pc = "clean"
    /\ LET cleaned == clean(domain, extract(elements))
       IN  /\ cleaned.raised = None
           /\ cleaned.value = <<>>
    /\ state' = "StoppedNoNewResults"
    /\ ret' = collected_subdomains
    /\ pc' = "done"
    /\ UNCHANGED <<domain, exclude_subdomains, meta, collected_subdomains,
                   index, last_url, elements, raised, nFetch, nSleep, allEmpty,
                   call, result, slept, runs, classes>>

\* The next iteration without the delay.
SleepSkipped ==
    /\ pc = "sleep"
    /\ pc' = "url"
    /\ UNCHANGED <<domain, exclude_subdomains, meta, state,
                   collected_subdomains, index, last_url, elements, ret,
                   raised, nFetch, nSleep, slept, allEmpty, call, result,
                   runs, classes>>

\* time.sleep(meta.request_delay), then the next iteration.
Sleep ==
    /\ pc = "sleep"
    /\ nSleep' = nSleep + 1
    /\ slept' = slept + meta.request_delay
    /\ pc' = "url"
    /\ UNCHANGED <<domain, exclude_subdomains, meta, state,
                   collected_subdomains, index, last_url, elements, ret,
                   raised, nFetch, allEmpty, call, result, runs, classes>>

\* The run is cancelled between two iterations: a KeyboardInterrupt arrives
\* during time.sleep, or after it and before the next URL is built.  The
\* sleep is outside the try, whose except clause names Exception only, so
\* the interrupt leaves run and nothing is returned.
Interrupt ==
    /\ pc = "sleep" \/ (pc = "url" /\ index >= 1)
    /\ raised' = "KeyboardInterrupt"
    /\ state' = "Raised"
    /\ pc' = "done"
    /\ UNCHANGED <<domain, exclude_subdomains, meta, collected_subdomains,
                   index, last_url, elements, ret, nFetch, nSleep, allEmpty,
                   call, result, slept, runs, classes>>

Next ==
    \/ Start
    \/ BuildUrl
    \/ FetchOk
    \/ FetchFail
    \/ CleanRaises
    \/ Collect
    \/ NoNewResults
    \/ Sleep
    \/ Interrupt

Spec == Init /\ [][Next]_vars

----------------------------------------------------------------------------
(* Direct calls of clean and url, on inputs a run need not produce *)

\* A plugin not running.
NotRunning ==
    /\ domain = <<"a">>
    /\ exclude_subdomains = NoneList
    /\ meta = CHOOSE m \in Metas : m.include_param /= <<>>
    /\ pc = "idle"
    /\ state = "Idle"
    /\ collected_subdomains = <<>>
    /\ index = 0
    /\ last_url = <<>>
    /\ elements = <<>>
    /\ ret = <<>>
    /\ raised = None
    /\ nFetch = 0
    /\ nSleep = 0
    /\ allEmpty = TRUE
    /\ slept = 0

\* The domains of the plugins clean is called on: the empty string and
\* names with and without dots.
CleanDomains == {<<>>, <<"a">>, <<".">>, <<".", "a">>}

\* The lists clean is called with: every text alone, and pairs of texts.
CleanInputs ==
    {<<t>> : t \in Texts(MaxLen)}
    \cup {<<t1, t2>> : t1 \in RunTexts, t2 \in RunTexts}

InitClean ==
    /\ NotRunning
    /\ \E d \in CleanDomains, urls \in CleanInputs :
          call = [fn |-> "clean", returned |-> FALSE, domain |-> d, urls |-> urls]
    /\ result = NoResult
    /\ runs = <<>>
    /\ classes = <<>>

CallClean ==
    /\ call.fn = "clean"
    /\ ~call.returned
    /\ result' = clean(call.domain, call.urls)
    /\ call' = [call EXCEPT !.returned = TRUE]
    /\ UNCHANGED <<runVars, runs, classes>>

SpecClean == InitClean /\ [][CallClean]_vars

\* The subdomains url is called with.
Subdomains == {<<"a">>, <<"a", "a">>, <<".", "a">>}

ExclusionLists ==
    {NoneList}
    \cup {ListOf(l) : l \in UNION {[1..k -> Subdomains] : k \in 0..MaxExcl}}

InitUrl ==
    /\ NotRunning
    /\ \E m \in Metas, d \in {<<>>, <<"a">>}, own \in Presets,
          e \in ExclusionLists :
          call = [fn |-> "url", returned |-> FALSE, meta |-> m, domain |-> d,
                  self_exclude |-> own, exclude |-> e]
    /\ result = NoResult
    /\ runs = <<>>
    /\ classes = <<>>

CallUrl ==
    /\ call.fn = "url"
    /\ ~call.returned
    /\ result' = [raised |-> None,
                  value |-> url(call.meta, call.domain, call.self_exclude,
                                call.exclude)]
    /\ call' = [call EXCEPT !.returned = TRUE]
    /\ UNCHANGED <<runVars, runs, classes>>

SpecUrl == InitUrl /\ [][CallUrl]_vars

----------------------------------------------------------------------------
(* PluginMeta.__new__: the options of a plugin class, set when it is defined *)

\* What a Meta says of an option it does not declare.
Undeclared == "undeclared"

OptionNames == {"search_url", "subdomains_selector", "abstract"}

\* The Meta of a class definition: each option declared or not.  A class
\* without a Meta declares nothing.
Declarations ==
    [search_url : {"x", "y", Undeclared},
     subdomains_selector : {"x", Undeclared},
     abstract : {"True", "False", Undeclared}]

\* The value Options gives an option the Meta does not declare.
DefaultOption(name) == IF name = "abstract" THEN "False" ELSE "unset"

\* Options(meta): the declared options as they are, the others by default.
Options(declared) ==
    [name \in OptionNames |->
        IF declared[name] /= Undeclared THEN declared[name]
        ELSE DefaultOption(name)]

\* The base class has no _meta when it is PluginBase itself.
NoBase == [exists |-> FALSE, meta |-> Options([n \in OptionNames |-> Undeclared])]
BaseOf(cs) ==
    IF cs = <<>> THEN NoBase ELSE [exists |-> TRUE, meta |-> cs[Len(cs)].meta]

\* The options of a new class that inherits whatever its base is.
NewClassMetaFromAnyBase(base, declared) ==
    IF base.exists
    THEN [name \in OptionNames |->
            IF declared[name] = Undeclared THEN base.meta[name]
            ELSE Options(declared)[name]]
    ELSE Options(declared)

\* new_class._meta: Options(meta), and from a base that has a _meta and is
\* not abstract, every option the Meta does not declare.
NewClassMeta(base, declared) ==
    IF base.exists /\ base.meta["abstract"] /= "True"
    THEN [name \in OptionNames |->
            IF declared[name] = Undeclared THEN base.meta[name]
            ELSE Options(declared)[name]]
    ELSE Options(declared)

\* Not more classes than this are defined, each a subclass of the last.
MaxChain == 3

InitMeta ==
    /\ NotRunning
    /\ call = NoCall
    /\ result = NoResult
    /\ runs = <<>>
    /\ classes = <<>>

\* class ...(last class defined, or PluginBase): with some Meta.
DefineClass ==
    /\ Len(classes) < MaxChain
    /\ \E declared \in Declarations :
          classes' = Append(classes,
                            [declared |-> declared,
                             meta |-> NewClassMeta(BaseOf(classes), declared)])
    /\ UNCHANGED <<runVars, call, result, runs>>

SpecMeta == InitMeta /\ [][DefineClass]_vars

----------------------------------------------------------------------------
(* Properties of run *)

NoDuplicates(list) ==
    \A i \in 1..Len(list), j \in 1..Len(list) : list[i] = list[j] => i = j

\* C1: when the fetch of iteration k fails, run stops in StoppedError
\* without raising and returns the list accumulated by iterations 1..k-1,
\* which the failing iteration leaves as it was; it is the empty list when
\* k = 1.
C1_FetchFailureReturnsAccumulated ==
    [][(pc = "fetch" /\ pc' = "done") =>
          /\ state' = "StoppedError"
          /\ raised' = None
          /\ ret' = collected_subdomains
          /\ collected_subdomains' = collected_subdomains
          /\ nFetch' = index
          /\ (index = 1 => ret' = <<>>)]_vars

\* The second fetch failed after a first iteration that found subdomains.
C1_Witness ==
    /\ state = "StoppedError"
    /\ index = 2
    /\ nFetch = 2
    /\ ret /= <<>>

\* C2: when every fetch returns zero elements, run ends after one
\* iteration (one URL built, one fetch issued) in StoppedNoNewResults and
\* returns the empty list or the preset exclusions alone, whatever the
\* domain and the preset exclusions are.
C2_ZeroFragmentsStopAfterOneIteration ==
    (nFetch >= 1 /\ allEmpty /\ pc /= "clean") =>
        /\ pc = "done"
        /\ state = "StoppedNoNewResults"
        /\ raised = None
        /\ index = 1
        /\ nFetch = 1
        /\ \/ ret = <<>>
           \/ ret = without_duplicates(OrEmpty(exclude_subdomains))

\* C3: no string occurs twice in the accumulated list, nor in the list run
\* returns.
C3_NoDuplicates ==
    /\ NoDuplicates(collected_subdomains)
    /\ NoDuplicates(ret)

\* The second page held the one subdomain of the first page, twice.
C3_Witness ==
    /\ domain = <<>>
    /\ pc = "sleep"
    /\ index = 2
    /\ Len(collected_subdomains) = 1
    /\ Len(elements) = 2
    /\ elements[1] = elements[2]

\* C4: the domain itself is never in the accumulated list, neither when a
\* URL is built from it nor when run returns it.
C4_NeverTheBareDomain ==
    /\ ~Contains(collected_subdomains, domain)
    /\ ~Contains(ret, domain)

\* A page held a text whose cleaned value is the domain, and a subdomain.
C4_Witness ==
    /\ pc = "sleep"
    /\ Contains(clean(domain, extract(elements)).value, domain)
    /\ collected_subdomains /= <<>>

\* C5: run never raises.
C5_RunNeverRaises == raised = None

\* C6: for an empty domain no URL is built and no fetch is issued.
C6_EmptyDomainRejected ==
    domain = <<>> => (index = 0 /\ nFetch = 0 /\ last_url = <<>>)

\* C12: a run cancelled between two iterations, during the sleep or
\* before the next fetch is issued, returns the list accumulated so far.
C12_CancelledRunReturnsPartial ==
    [][((pc = "sleep" \/ pc = "url") /\ pc' = "done") =>
          (raised' = None /\ ret' = collected_subdomains)]_vars

----------------------------------------------------------------------------
(* Properties of url *)

Min(S) == CHOOSE x \in S : \A y \in S : x <= y

\* The items of a list whose earlier items all differ from them, in order.
RECURSIVE FirstSeenFrom(_, _)
FirstSeenFrom(list, i) ==
    IF i > Len(list) THEN <<>>
    ELSE (IF \A j \in 1..(i - 1) : list[j] /= list[i]
          THEN <<list[i]>> ELSE <<>>)
         \o FirstSeenFrom(list, i + 1)

FirstSeen(list) == FirstSeenFrom(list, 1)

\* One term "+", the exclude parameter, the subdomain, for each item.
RECURSIVE ExcludeTerms(_, _)
ExcludeTerms(m, list) ==
    IF list = <<>> THEN <<>>
    ELSE <<"+">> \o m.exclude_param \o Head(list)
         \o ExcludeTerms(m, Tail(list))

BaseUrl(m, d) ==
    m.search_url \o <<"?">> \o m.query_param \o <<"=">> \o m.include_param \o d

\* C7 as stated: url returns the base URL followed by one exclude term for
\* each item of the given list E, deduplicated in first-seen order, and
\* the base URL alone when E is empty.
C7_UrlOfGivenExclusionsOnly ==
    (call.fn = "url" /\ call.returned) =>
        result.value =
            BaseUrl(call.meta, call.domain)
            \o ExcludeTerms(call.meta, FirstSeen(OrEmpty(call.exclude)))

\* C7 as amended: url returns the base URL followed by one exclude term for
\* each item of E followed by the plugin's own exclude_subdomains,
\* deduplicated in first-seen order, and the base URL alone when both are
\* empty.
C7_UrlOfGivenAndOwnExclusions ==
    (call.fn = "url" /\ call.returned) =>
        /\ result.value =
              BaseUrl(call.meta, call.domain)
              \o ExcludeTerms(call.meta,
                    FirstSeen(OrEmpty(call.exclude) \o OrEmpty(call.self_exclude)))
        /\ (OrEmpty(call.exclude) = <<>> /\ OrEmpty(call.self_exclude) = <<>>
               => result.value = BaseUrl(call.meta, call.domain))

\* url has returned for a list with a repeated item and a plugin with
\* exclusions of its own, one of them in the list.
C7_Witness ==
    /\ call.fn = "url"
    /\ call.returned
    /\ Len(OrEmpty(call.exclude)) = 2
    /\ call.exclude.items[1] = call.exclude.items[2]
    /\ Len(OrEmpty(call.self_exclude)) = 3
    /\ Contains(call.self_exclude.items, call.exclude.items[1])

\* The URL u has an exclude term for s: "+", the exclude parameter and s,
\* ending where u ends or the next term begins.
HasExcludeTerm(u, m, s) ==
    LET term == <<"+">> \o m.exclude_param \o s
    IN  \E k \in 1..Len(u) :
           /\ k + Len(term) - 1 <= Len(u)
           /\ SubSeq(u, k, k + Len(term) - 1) = term
           /\ (k + Len(term) - 1 = Len(u) \/ u[k + Len(term)] = "+")

----------------------------------------------------------------------------
(* Properties of clean *)

\* The text after its leading scheme, if it has one: the characters, at
\* least one, before the first "://".
StripScheme(t) ==
    LET S == {k \in 1..(Len(t) - 2) : SubSeq(t, k, k + 2) = <<":", "/", "/">>}
    IN  IF S /= {} /\ Min(S) > 1 THEN SubSeq(t, Min(S) + 3, Len(t)) ELSE t

\* What one raw text contributes: the prefix before the first "/" or "?"
\* of the scheme-stripped text, if it is not empty and ends with the domain.
HostOf(d, t) ==
    LET r == StripScheme(t)
        S == {k \in 1..Len(r) : r[k] \in {"/", "?"}}
    IN  IF S = {} THEN <<>>
        ELSE LET host == SubSeq(r, 1, Min(S) - 1)
             IN  IF host /= <<>> /\ EndsWith(host, d) THEN <<host>> ELSE <<>>

RECURSIVE ReferenceClean(_, _)
ReferenceClean(d, texts) ==
    IF texts = <<>> THEN <<>>
    ELSE HostOf(d, Head(texts)) \o ReferenceClean(d, Tail(texts))

\* C9: clean returns, in input order and keeping duplicates, the host
\* prefix of each raw text that has one ending with the domain: the text
\* without its leading scheme, up to its first "/" or "?".
C9_CleanEqualsReference ==
    (call.fn = "clean" /\ call.returned) =>
        /\ result.raised = None
        /\ result.value = ReferenceClean(call.domain, call.urls)

\* C10: for a raw text that clean accepts, clean returns one entry, and
\* the domain, character for character, is a suffix of it.
C10_AcceptedEndsWithDomain ==
    (call.fn = "clean" /\ call.returned /\ Len(call.urls) = 1
        /\ result.value /= <<>>) =>
        /\ Len(result.value) = 1
        /\ EndsWith(result.value[1], call.domain)

----------------------------------------------------------------------------
(* Properties of PluginMeta.__new__ *)

IsAbstract(cs, k) == cs[k].declared["abstract"] = "True"

\* The nearest ancestor of class k that is not abstract, 0 if there is none.
NearestConcrete(cs, k) ==
    LET A == {j \in 1..(k - 1) : ~IsAbstract(cs, j)}
    IN  IF A = {} THEN 0 ELSE Max(A)

\* The options C11 gives a class that is not abstract.
RECURSIVE ClaimedMeta(_, _)
ClaimedMeta(cs, k) ==
    LET n == NearestConcrete(cs, k)
    IN  [name \in OptionNames |->
            IF cs[k].declared[name] /= Undeclared THEN cs[k].declared[name]
            ELSE IF n = 0 THEN DefaultOption(name)
            ELSE ClaimedMeta(cs, n)[name]]

\* C11 as stated: a class that is not abstract has each option from its
\* own Meta when declared there, otherwise from the options of its nearest
\* ancestor that is not abstract, abstract classes in between or not; with
\* no such ancestor the declared options are used as they are.
C11_InheritsFromNearestConcreteAncestor ==
    \A k \in 1..Len(classes) :
        ~IsAbstract(classes, k) => classes[k].meta = ClaimedMeta(classes, k)

\* C11 as amended: a class that is not abstract has each option from its
\* own Meta when declared there, otherwise from the options of its direct
\* base when that base is not abstract; when the direct base is abstract,
\* or there is none, the declared options are used as they are.
C11_InheritsFromConcreteDirectBase ==
    \A k \in 1..Len(classes) :
        ~IsAbstract(classes, k) =>
            \A name \in OptionNames :
                classes[k].meta[name] =
                    IF classes[k].declared[name] /= Undeclared
                    THEN classes[k].declared[name]
                    ELSE IF k > 1 /\ ~IsAbstract(classes, k - 1)
                         THEN classes[k - 1].meta[name]
                         ELSE DefaultOption(name)

\* A class that declares search_url, an abstract subclass of it, and a
\* subclass of that one which is not abstract and declares no search_url;
\* and a class that takes an option from its base and declares another.
C11_Witness ==
    /\ Len(classes) = 3
    /\ ~IsAbstract(classes, 1)
    /\ classes[1].declared["search_url"] = "x"
    /\ classes[1].declared["subdomains_selector"] = "x"
    /\ IsAbstract(classes, 2)
    /\ classes[2].meta["search_url"] = "x"
    /\ classes[2].declared["subdomains_selector"] = Undeclared
    /\ classes[2].meta["subdomains_selector"] = "x"
    /\ ~IsAbstract(classes, 3)
    /\ classes[3].declared["search_url"] = Undeclared
    /\ classes[3].meta["search_url"] = "unset"

----------------------------------------------------------------------------
(* PluginBase.run as a function of the run's own state: one record per
   running plugin, so that several runs can be put side by side *)

\* What the fetch of an iteration does: it selects a page, or it raises.
Fetched(page) == [ok |-> TRUE, page |-> page]
FetchRaised == [ok |-> FALSE, page |-> <<>>]

\* A plugin created with a domain and exclude_subdomains, run not yet called.
NewRun(d, own) ==
    [domain |-> d, exclude_subdomains |-> own, pc |-> "idle", state |-> "Idle",
     collected_subdomains |-> <<>>, index |-> 0, last_url |-> <<>>,
     elements |-> <<>>, ret |-> <<>>, raised |-> None]

\* What run does with the list clean returned, up to the sleep or the
\* return.
AfterClean(r, cleaned) ==
    IF cleaned.raised /= None
    THEN [r EXCEPT !.raised = cleaned.raised, !.state = "Raised",
                   !.pc = "done"]
    ELSE IF cleaned.value /= <<>>
    THEN [r EXCEPT !.collected_subdomains =
                      RemoveDomain(Merge(@, cleaned.value), r.domain),
                   !.pc = "sleep"]
    ELSE [r EXCEPT !.state = "StoppedNoNewResults",
                   !.ret = r.collected_subdomains, !.pc = "done"]

\* The step of run at pc = "clean": clean is called once, on the texts of
\* the elements, and its result is used from then on.
RunClean(r) ==
    CHOOSE next \in {AfterClean(r, subdomains) :
                        subdomains \in {clean(r.domain, extract(r.elements))}} :
        TRUE

\* The next step of the run r of a plugin whose class has the options m,
\* given what the fetch does if the step is the fetch.
RunStep(r, m, fetch) ==
    CASE r.pc = "idle" ->
            [r EXCEPT !.pc = "url", !.state = "Polling",
                      !.collected_subdomains = <<>>, !.index = 0]
      [] r.pc = "url" ->
            [r EXCEPT !.index = @ + 1,
                      !.last_url = url(m, r.domain, r.exclude_subdomains,
                                       ListOf(r.collected_subdomains)),
                      !.elements = <<>>, !.pc = "fetch"]
      [] r.pc = "fetch" ->
            IF fetch.ok
            THEN [r EXCEPT !.elements = fetch.page, !.pc = "clean"]
            ELSE [r EXCEPT !.state = "StoppedError",
                           !.ret = r.collected_subdomains, !.pc = "done"]
      [] r.pc = "clean" -> RunClean(r)
      [] r.pc = "sleep" -> [r EXCEPT !.pc = "url"]
      [] OTHER -> r

\* The run of the model's single plugin, as a record.
ThisRun ==
    [domain |-> domain, exclude_subdomains |-> exclude_subdomains, pc |-> pc,
     state |-> state, collected_subdomains |-> collected_subdomains,
     index |-> index, last_url |-> last_url, elements |-> elements,
     ret |-> ret, raised |-> raised]

\* Every step of the single run, but for the interrupt, is the step
\* RunStep makes.
RunStepIsNext ==
    [][raised' /= "KeyboardInterrupt" =>
          ThisRun' = RunStep(ThisRun, meta,
                             IF pc' = "clean" THEN Fetched(elements')
                             ELSE FetchRaised)]_vars

----------------------------------------------------------------------------
(* Two runs side by side: two plugins, of the same class or of two classes,
   on the same or on different domains, their steps interleaved in any order.
   The variable meta is the _meta of the first plugin's class; the second
   plugin reads it too when it is of the same class. *)

MaxIterTwo == 2

TwoDomains == {<<"a">>, <<".", "a">>}
TwoPresets == {NoneList, ListOf(<<<<"a", "a">>>>)}
TwoPages ==
    {<<>>,
     <<[text_content |-> <<"a", "/">>]>>,
     <<[text_content |-> <<".", "a", "/">>],
       [text_content |-> <<"a", "a", "/">>]>>}

\* The _meta of a class other than the one whose _meta is m.
OtherMeta(m) == CHOOSE o \in Metas : o /= m

\* The options run i reads: self._meta, an attribute of the plugin's class.
MetaOf(i) ==
    IF runs[i].same_class THEN meta ELSE OtherMeta(meta)

InitTwo ==
    /\ NotRunning
    /\ call = NoCall
    /\ result = NoResult
    /\ classes = <<>>
    /\ \E d1 \in TwoDomains, d2 \in TwoDomains,
          own1 \in TwoPresets, own2 \in TwoPresets, same \in BOOLEAN :
          runs = << [run |-> NewRun(d1, own1), same_class |-> TRUE,
                     fetched |-> <<>>],
                    [run |-> NewRun(d2, own2), same_class |-> same,
                     fetched |-> <<>>] >>

\* What the fetch of a step does; every other step takes nothing in.
FetchesOf(r) ==
    IF r.pc = "fetch"
    THEN {Fetched(p) : p \in TwoPages} \cup {FetchRaised}
    ELSE {FetchRaised}

\* A step of run i as if the collected list were one list of the class.
TwoStepSharedList(i) ==
    /\ runs[i].run.pc /= "done"
    /\ runs[i].run.pc = "url" => runs[i].run.index < MaxIterTwo
    /\ \E f \in FetchesOf(runs[i].run) :
          LET next == RunStep(runs[i].run, MetaOf(i), f)
          IN  runs' = [j \in {1, 2} |->
                         IF j = i
                         THEN [runs[i] EXCEPT
                                 !.run = next,
                                 !.fetched = IF runs[i].run.pc = "fetch"
                                             THEN Append(@, f) ELSE @]
                         ELSE [runs[j] EXCEPT
                                 !.run.collected_subdomains =
                                     next.collected_subdomains]]
    /\ UNCHANGED <<runVars, call, result, classes>>

\* One step of run i; fetched remembers what its fetches did.
TwoStep(i) ==
    /\ runs[i].run.pc /= "done"
    /\ runs[i].run.pc = "url" => runs[i].run.index < MaxIterTwo
    /\ \E f \in FetchesOf(runs[i].run) :
          runs' = [runs EXCEPT
                     ![i].run = RunStep(@, MetaOf(i), f),
                     ![i].fetched = IF runs[i].run.pc = "fetch"
                                    THEN Append(@, f) ELSE @]
    /\ UNCHANGED <<runVars, call, result, classes>>

NextTwo == \E i \in {1, 2} : TwoStep(i)

SpecTwo == InitTwo /\ [][NextTwo]_vars

----------------------------------------------------------------------------
(* Properties of two runs side by side *)

\* The states a run is in when it runs alone from r and its fetches have
\* done h so far.
RECURSIVE SoloRuns(_, _, _)
SoloRuns(r, m, h) ==
    IF r.pc = "done"
    THEN IF h = <<>> THEN {r} ELSE {}
    ELSE IF r.pc = "fetch"
    THEN IF h = <<>> THEN {r}
         ELSE SoloRuns(RunStep(r, m, Head(h)), m, Tail(h))
    ELSE IF h = <<>>
    THEN {r} \cup SoloRuns(RunStep(r, m, FetchRaised), m, h)
    ELSE SoloRuns(RunStep(r, m, FetchRaised), m, h)

\* C13: whatever the interleaving of the steps of two runs, each run is in a
\* state (URL built, list collected, list returned) it reaches alone when
\* its fetches do the same; a step of one run leaves the other run as it
\* was, and no step changes the options of the class.
C13_RunsDoNotInterfere ==
    /\ [](\A i \in 1..Len(runs) :
             runs[i].run \in
                 SoloRuns(NewRun(runs[i].run.domain,
                                 runs[i].run.exclude_subdomains),
                          MetaOf(i), runs[i].fetched))
    /\ [][/\ meta' = meta
          /\ \E i \in {1, 2} : \A j \in {1, 2} \ {i} : runs'[j] = runs[j]]_vars

\* Both runs have returned after two fetches each, with different lists.
C13_Witness ==
    /\ Len(runs) = 2
    /\ \A i \in {1, 2} :
          /\ runs[i].run.pc = "done"
          /\ Len(runs[i].fetched) = 2
          /\ runs[i].run.ret /= <<>>
    /\ runs[1].run.ret /= runs[2].run.ret
    /\ runs[1].run.last_url /= runs[2].run.last_url

----------------------------------------------------------------------------
(* Properties of the loop of run *)

\* C14: the iteration whose fetch succeeded ends the run in
\* StoppedNoNewResults exactly when it adds no entry to the collected list.
C14_NoNewEntryEndsRun ==
    [][(pc = "clean" /\ raised' = None) =>
          (state' = "StoppedNoNewResults"
              <=> collected_subdomains' = collected_subdomains)]_vars

\* C15: the merge of an iteration keeps every entry collected before and
\* adds every cleaned value but the domain; the URL of the next iteration
\* has an exclude term for every entry collected; and the steps of an
\* iteration come in order, so that a fetch follows the merge and the sleep
\* of every earlier iteration.
C15_ExclusionFeedback ==
    [][/\ (pc = "clean" /\ pc' = "sleep") =>
             LET cleaned == clean(domain, extract(elements)).value
             IN  /\ \A i \in 1..Len(cleaned) :
                       cleaned[i] /= domain =>
                           Contains(collected_subdomains', cleaned[i])
                 /\ \A i \in 1..Len(collected_subdomains) :
                       Contains(collected_subdomains', collected_subdomains[i])
       /\ (pc = "url" /\ pc' = "fetch") =>
             /\ \A i \in 1..Len(collected_subdomains) :
                   HasExcludeTerm(last_url', meta, collected_subdomains[i])
             /\ nFetch = index' - 1
             /\ nSleep = index' - 1
       /\ (pc' = "fetch" /\ pc /= "fetch") => pc = "url"
       /\ (pc' = "url" /\ pc /= "url") => pc \in {"idle", "sleep"}
       /\ (pc' = "sleep" /\ pc /= "sleep") => pc = "clean"]_vars

\* The third URL of a run was built after two merges that added an entry
\* each, and has an exclude term for both.
C15_Witness ==
    /\ pc = "fetch"
    /\ index = 3
    /\ Len(collected_subdomains) = 2
    /\ \A i \in 1..2 : HasExcludeTerm(last_url, meta, collected_subdomains[i])
    /\ ~HasExcludeTerm(last_url, meta, domain)

\* C16: every delay lasts request_delay; when a fetch is about to be issued
\* there has been one delay for each fetch before it, and an iteration that
\* has fetched has not slept yet; the iteration that stops the run takes no
\* delay, so a stopped run has slept once less than it has fetched.
C16_OneDelayBetweenFetches ==
    /\ slept = nSleep * meta.request_delay
    /\ pc \in {"url", "fetch"} => nSleep = nFetch
    /\ pc \in {"clean", "sleep"} => nSleep = nFetch - 1
    /\ state \in {"StoppedError", "StoppedNoNewResults"} =>
          nSleep = nFetch - 1

\* A run has stopped at its third fetch, after two delays.
C16_Witness ==
    /\ state \in {"StoppedError", "StoppedNoNewResults"}
    /\ nFetch = 3
    /\ nSleep = 2
    /\ slept = 2 * meta.request_delay

\* C17: a run that has stopped, on a failed fetch or on an empty page, has
\* left the loop and can take no further step: it issues no other fetch
\* and builds no other URL.
C17_StoppedIsTerminal ==
    state \in {"StoppedError", "StoppedNoNewResults"} =>
        /\ pc = "done"
        /\ ~ENABLED Next

\* The second fetch of a run failed with more iterations left, and the run
\* can take no step.
C17_Witness ==
    /\ state = "StoppedError"
    /\ index = 2
    /\ index < MaxIter
    /\ nFetch = 2
    /\ ret /= <<>>

\* The values of list, in order and once each, that are neither in seen
\* nor the domain d.
RECURSIVE NewEntries(_, _, _)
NewEntries(seen, list, d) ==
    IF list = <<>> THEN <<>>
    ELSE IF Head(list) = d \/ Contains(seen, Head(list))
    THEN NewEntries(seen, Tail(list), d)
    ELSE <<Head(list)>> \o NewEntries(Append(seen, Head(list)), Tail(list), d)

\* C18: a merge leaves the entries collected so far where they are and
\* appends the values of the page that are new, in the order of the page;
\* the list a stopped run returns is the list collected.
C18_MergeKeepsFirstSeenOrder ==
    [][/\ (pc = "clean" /\ pc' = "sleep") =>
             collected_subdomains' =
                 collected_subdomains
                 \o NewEntries(collected_subdomains,
                               clean(domain, extract(elements)).value, domain)
       /\ (pc /= "clean" /\ pc /= "idle") =>
             collected_subdomains' = collected_subdomains
       /\ (state' = "StoppedError" \/ state' = "StoppedNoNewResults") =>
             ret' = collected_subdomains]_vars

\* The second page held a new value and then a value collected from the
\* first page: the new one was appended and the earlier one did not move.
C18_Witness ==
    /\ pc = "sleep"
    /\ index = 2
    /\ Len(collected_subdomains) = 2
    /\ clean(domain, extract(elements)).value =
           <<collected_subdomains[2], collected_subdomains[1]>>

----------------------------------------------------------------------------
(* One run against a cooperating search engine: the fetch never fails, and
   the page it selects holds only hosts of a finite universe of hosts that
   end in the domain and that the URL of the request does not exclude. *)

CoopDomains == {<<"a">>, <<".", "a">>}

\* The universe of hosts of the domain d: d itself and two subdomains.
Hosts(d) == {d, <<"a">> \o d, <<".">> \o d}

\* The pages the engine can answer the request of run r with.
CoopPages(r, m) ==
    LET allowed == {h \in Hosts(r.domain) : ~HasExcludeTerm(r.last_url, m, h)}
    IN  UNION {[1..k -> {[text_content |-> h \o <<"/">>] : h \in allowed}] :
                  k \in 0..MaxPage}

\* index only numbers the requests in the progress message; counted up to
\* MaxIter, so that a loop that goes on for ever is a cycle of states.
Saturated(r) ==
    [r EXCEPT !.index = IF @ > MaxIter THEN MaxIter ELSE @]

InitCoop ==
    /\ NotRunning
    /\ call = NoCall
    /\ result = NoResult
    /\ classes = <<>>
    /\ \E d \in CoopDomains, own \in TwoPresets, same \in BOOLEAN :
          runs = << [run |-> NewRun(d, own), same_class |-> same,
                     fetched |-> <<>>] >>

\* One step of the run; its fetch succeeds with a page of the engine.
CoopStep ==
    /\ runs[1].run.pc /= "done"
    /\ \E f \in IF runs[1].run.pc = "fetch"
                THEN {Fetched(p) : p \in CoopPages(runs[1].run, MetaOf(1))}
                ELSE {FetchRaised} :
          runs' = [runs EXCEPT
                     ![1].run = Saturated(RunStep(@, MetaOf(1), f))]
    /\ UNCHANGED <<runVars, call, result, classes>>

\* The run is never suspended for ever: its thread keeps taking steps.
SpecCoop == InitCoop /\ [][CoopStep]_vars /\ WF_vars(CoopStep)

\* C19: against a cooperating search engine the run eventually returns.
C19_CooperatingRunStops ==
    <>(Len(runs) = 1 /\ runs[1].run.pc = "done")

====
